---- MODULE Spec2Model ----
(***************************************************************************)
(* A model of nfsgetattrcache.c: the getattr cache (cache_list under       *)
(* cache_lock, the hit/miss counters), the request path cached_getattr,    *)
(* the delayed cleanup work and the module exit.                           *)
(*                                                                         *)
(* Every thread runs the code line by line where another thread can        *)
(* observe the difference: jiffies is sampled where the code samples it,   *)
(* the spinlock is taken and released where the code does, and the call    *)
(* of the original getattr (the provider) is a state a caller stays in     *)
(* while the clock and the other threads move on.                          *)
(***************************************************************************)
EXTENDS Integers, Sequences, FiniteSets, TLC

(***************************************************************************)
(* Bounds of the model.                                                    *)
(***************************************************************************)
\* the clock stops at MaxTime jiffies
MaxTime == 6
\* calls of cached_getattr started in one behaviour
MaxCalls == 2
\* jiffies per second of the modelled kernel (its tick rate)
HZ == 1
\* the jiffies a call of cached_getattr or a run of cleanup_cache may last
\* beyond the jiffy at which it sampled its now
MaxLag == 2
\* invocations of getattr_cache_exit in one behaviour
MaxExits == 2

(***************************************************************************)
(* Program constants.                                                      *)
(***************************************************************************)
CACHE_TIMEOUT_MS == 1000
CLEANUP_INTERVAL_MS == 5000
MAX_PATH_LEN == 256
EINVAL == 22
EIO == 5
ENOMEM == 12

\* unsigned long arithmetic: jiffies differences are taken modulo
\* ULONG_RANGE.  TLC's integers are 32 bit, so the range is 2^30 and not
\* 2^BITS_PER_LONG; every sampled time is at most MaxTime, far below it, and
\* a wrapped difference is at least ULONG_RANGE - MaxTime, which compares
\* with the timeout exactly as a wrapped difference of the full width does.
ULONG_RANGE == 2 ^ 30

USub(a, b) == (a - b) % ULONG_RANGE

\* msecs_to_jiffies rounds up to whole jiffies
msecs_to_jiffies(m) == (m * HZ + 999) \div 1000

TTL == msecs_to_jiffies(CACHE_TIMEOUT_MS)

(***************************************************************************)
(* Strings are sequences of characters; NUL ends a C string.               *)
(***************************************************************************)
NUL == "\\0"

CharAt(s, i) == IF i <= Len(s) THEN s[i] ELSE NUL

\* static const char *cached_paths[] = { "/tmp/nfs" }
cached_paths == << <<"/", "t", "m", "p", "/", "n", "f", "s">> >>

NUM_CACHED_PATHS == Len(cached_paths)

\* strncmp(a, b, n) == 0, computed character by character from index i
RECURSIVE StrncmpEqFrom(_, _, _, _)
StrncmpEqFrom(a, b, n, i) ==
    IF i > n THEN TRUE
    ELSE IF CharAt(a, i) # CharAt(b, i) THEN FALSE
    ELSE IF CharAt(a, i) = NUL THEN TRUE
    ELSE StrncmpEqFrom(a, b, n, i + 1)

StrncmpEq(a, b, n) == StrncmpEqFrom(a, b, n, 1)

\* strcmp(a, b) == 0
StrcmpEq(a, b) == StrncmpEqFrom(a, b, Len(a) + 1, 1)

\* strncpy(dst, src, n); dst[n] = '\0'
Strncpy(src, n) == SubSeq(src, 1, IF Len(src) < n THEN Len(src) ELSE n)

RECURSIVE ShouldCacheFrom(_, _)
ShouldCacheFrom(path, i) ==
    IF i > NUM_CACHED_PATHS THEN FALSE
    ELSE IF StrncmpEq(path, cached_paths[i], Len(cached_paths[i])) THEN TRUE
    ELSE ShouldCacheFrom(path, i + 1)

\* should_cache_path that takes a prefix only when a path component ends
\* with it ("/tmp/nfsother" is not under "/tmp/nfs")
should_cache_path_Component(path) ==
    \E i \in 1..NUM_CACHED_PATHS :
        /\ StrncmpEq(path, cached_paths[i], Len(cached_paths[i]))
        /\ CharAt(path, Len(cached_paths[i]) + 1) \in {NUL, "/"}

\* the loop over cached_paths: true at the first prefix that strncmp finds
\* equal to the path over the length of the prefix
should_cache_path(path) == ShouldCacheFrom(path, 1)

(***************************************************************************)
(* Threads, inputs and the provider.                                       *)
(***************************************************************************)
\* the threads that call cached_getattr
Callers == {"c1", "c2"}

FREE == "free"
WORKER == "kworker"
EXIT == "rmmod"

\* the full paths d_path can produce: one under the cached prefix, one that
\* continues the prefix without a separator, one shorter than the prefix and
\* one that differs from it in its last character
PathA == <<"/", "t", "m", "p", "/", "n", "f", "s", "/", "a">>
PathOther == <<"/", "t", "m", "p", "/", "n", "f", "s", "o", "t", "h", "e", "r">>
PathTmp == <<"/", "t", "m", "p">>
PathX == <<"/", "t", "m", "p", "/", "n", "f", "x">>

Paths == {PathA, PathOther, PathTmp, PathX}

\* get_full_path returns NULL when d_path fails; no path is the empty string
NULL == <<>>

\* the arguments of a call: whether path, path->dentry and stat are non-null,
\* and what d_path yields for the path
GoodArgs == [path : {TRUE}, dentry : {TRUE}, stat : {TRUE}, d_path : Paths \cup {NULL}]

BadArgs == {[path |-> FALSE, dentry |-> FALSE, stat |-> TRUE, d_path |-> NULL],
            [path |-> TRUE, dentry |-> FALSE, stat |-> TRUE, d_path |-> NULL],
            [path |-> TRUE, dentry |-> TRUE, stat |-> FALSE, d_path |-> NULL]}

Args == GoodArgs \cup BadArgs

NoArgs == [path |-> FALSE, dentry |-> FALSE, stat |-> FALSE, d_path |-> NULL]

\* the attribute blobs (struct kstat) the provider can answer with
Stats == {"S1", "S2"}

\* a stat buffer nothing has been written to
NoStat == "none"

\* what original_iops->getattr can return: success with attributes, or an error
ProviderResults == {[ret |-> 0, stat |-> s] : s \in Stats} \cup {[ret |-> -EIO, stat |-> NoStat]}

NoResult == [ret |-> 1, stat |-> NoStat]

VARIABLES
    jiffies,        \* the kernel clock
    cache_list,     \* the list of entries, head first
    cache_lock,     \* the owner of the spinlock, or FREE
    cache_hits,     \* atomic_t cache_hits
    cache_misses,   \* atomic_t cache_misses
    pc,             \* where each caller is in cached_getattr
    args,           \* the arguments of each caller's current call
    now,            \* cached_getattr's local now (0 outside a call)
    fullpath,       \* cached_getattr's local fullpath
    stat,           \* the caller's stat buffer
    ret,            \* the value the call returned
    entry,          \* cached_getattr's local entry (after kmalloc)
    fetched,        \* history: what the provider answered in this call
    ncalls,         \* history: provider calls made by this call
    nhit,           \* history: increments of cache_hits by this call
    nmiss,          \* history: increments of cache_misses by this call
    started,        \* calls of cached_getattr started so far
    wpc,            \* where the cleanup work is
    wnow,           \* cleanup_cache's local now
    due,            \* the jiffies at which the delayed work's timer expires
    xpc,            \* where getattr_cache_exit is
    wq_destroys     \* history: calls of destroy_workqueue(cleanup_workqueue)

vars == <<jiffies, cache_list, cache_lock, cache_hits, cache_misses, pc, args, now,
          fullpath, stat, ret, entry, fetched, ncalls, nhit, nmiss, started, wpc,
          wnow, due, xpc, wq_destroys>>

callvars == <<pc, args, now, fullpath, stat, ret, entry, fetched, ncalls, nhit, nmiss, started>>
workvars == <<wpc, wnow, due>>
exitvars == <<xpc, wq_destroys>>
counters == <<cache_hits, cache_misses>>

\* struct getattr_cache_entry; fetchedAt is a history field (the jiffies at
\* which the provider call that produced stat returned), read by no action
Entry(p, s, ts, at) == [path |-> p, stat |-> s, timestamp |-> ts, fetchedAt |-> at]

\* the local entry of a call that holds no allocated entry
NoEntry == Entry(NULL, NoStat, 0, 0)

\* module_init has run at jiffies 0: empty list, zero counters, the cleanup
\* work queued CLEANUP_INTERVAL_MS ahead
Init ==
    /\ jiffies = 0
    /\ cache_list = <<>>
    /\ cache_lock = FREE
    /\ cache_hits = 0
    /\ cache_misses = 0
    /\ pc = [t \in Callers |-> "idle"]
    /\ args = [t \in Callers |-> NoArgs]
    /\ now = [t \in Callers |-> 0]
    /\ fullpath = [t \in Callers |-> NULL]
    /\ stat = [t \in Callers |-> NoStat]
    /\ ret = [t \in Callers |-> 0]
    /\ entry = [t \in Callers |-> NoEntry]
    /\ fetched = [t \in Callers |-> NoResult]
    /\ ncalls = [t \in Callers |-> 0]
    /\ nhit = [t \in Callers |-> 0]
    /\ nmiss = [t \in Callers |-> 0]
    /\ started = 0
    /\ wpc = "queued"
    /\ wnow = 0
    /\ due = msecs_to_jiffies(CLEANUP_INTERVAL_MS)
    /\ xpc = "loaded"
    /\ wq_destroys = 0

\* a caller is inside cached_getattr
Active(t) == pc[t] \notin {"idle", "done"}

\* the cleanup work is inside cleanup_cache
Sweeping == wpc = "sweep"

\* the clock advances under every thread, while no call and no sweep in
\* progress has lasted MaxLag jiffies
Tick ==
    /\ jiffies < MaxTime
    /\ \A t \in Callers : Active(t) => jiffies - now[t] < MaxLag
    /\ Sweeping => jiffies - wnow < MaxLag
    /\ jiffies' = jiffies + 1
    /\ UNCHANGED <<cache_list, cache_lock, counters, callvars, workvars, exitvars>>

(***************************************************************************)
(* cached_getattr                                                          *)
(*                                                                         *)
(* A section of code between spin_lock and spin_unlock is one step: the    *)
(* lock makes it atomic for every other section, and it reads nothing      *)
(* else that another thread writes.  cache_lock is the owner the section   *)
(* leaves behind; a step that takes the lock waits until it is FREE.       *)
(***************************************************************************)
\* LookupMatch with the age comparison inverted
LookupMatch_Inverted(e, path, n) ==
    /\ StrcmpEq(e.path, path)
    /\ USub(n, e.timestamp) >= msecs_to_jiffies(CACHE_TIMEOUT_MS)

\* LookupMatch with an age of exactly the timeout still accepted
LookupMatch_Inclusive(e, path, n) ==
    /\ StrcmpEq(e.path, path)
    /\ USub(n, e.timestamp) <= msecs_to_jiffies(CACHE_TIMEOUT_MS)

\* the test of the lookup loop: same path and younger than the timeout
LookupMatch(e, path, n) ==
    /\ StrcmpEq(e.path, path)
    /\ USub(n, e.timestamp) < msecs_to_jiffies(CACHE_TIMEOUT_MS)

\* list_for_each_entry from the head: the index of the first entry that
\* passes the test, 0 when the loop runs off the end
RECURSIVE LookupFrom(_, _, _, _)
LookupFrom(list, path, n, i) ==
    IF i > Len(list) THEN 0
    ELSE IF LookupMatch(list[i], path, n) THEN i
    ELSE LookupFrom(list, path, n, i + 1)

Lookup(list, path, n) == LookupFrom(list, path, n, 1)

\* InvalidArgs without the test of the output buffer
InvalidArgs_NoStatCheck(a) == ~a.path \/ ~a.dentry

\* the first test of cached_getattr
InvalidArgs(a) == ~a.path \/ ~a.dentry \/ ~a.stat

\* Route without the call of should_cache_path
Route_NoPolicy(a) ==
    IF a.d_path = NULL THEN "delegate"
    ELSE "lookup"

\* where a call with valid arguments goes after get_full_path and
\* should_cache_path
Route(a) ==
    IF a.d_path = NULL THEN "delegate"
    ELSE IF ~should_cache_path(a.d_path) THEN "delegate"
    ELSE "lookup"

\* where a call goes from its entry
EnterTo(a) == IF InvalidArgs(a) THEN "done" ELSE Route(a)

\* entry: now = jiffies, the argument test, get_full_path, should_cache_path
GetattrEnter(t, a) ==
    /\ pc[t] \in {"idle", "done"}
    /\ started < MaxCalls
    /\ xpc = "loaded"
    /\ started' = started + 1
    /\ args' = [args EXCEPT ![t] = a]
    /\ now' = [now EXCEPT ![t] = IF EnterTo(a) = "done" THEN 0 ELSE jiffies]
    /\ stat' = [stat EXCEPT ![t] = NoStat]
    /\ entry' = [entry EXCEPT ![t] = NoEntry]
    /\ fetched' = [fetched EXCEPT ![t] = NoResult]
    /\ ncalls' = [ncalls EXCEPT ![t] = 0]
    /\ nhit' = [nhit EXCEPT ![t] = 0]
    /\ nmiss' = [nmiss EXCEPT ![t] = 0]
    /\ ret' = [ret EXCEPT ![t] = IF InvalidArgs(a) THEN -EINVAL ELSE 0]
    /\ fullpath' = [fullpath EXCEPT ![t] = IF InvalidArgs(a) THEN NULL ELSE a.d_path]
    /\ pc' = [pc EXCEPT ![t] = EnterTo(a)]
    /\ UNCHANGED <<jiffies, cache_list, cache_lock, counters, workvars, exitvars>>

\* return original_iops->getattr(...) for a path that is not cached
GetattrDelegate(t, r) ==
    /\ pc[t] = "delegate"
    /\ ncalls' = [ncalls EXCEPT ![t] = @ + 1]
    /\ fetched' = [fetched EXCEPT ![t] = r]
    /\ ret' = [ret EXCEPT ![t] = r.ret]
    /\ stat' = [stat EXCEPT ![t] = IF r.ret = 0 THEN r.stat ELSE @]
    /\ pc' = [pc EXCEPT ![t] = "done"]
    /\ now' = [now EXCEPT ![t] = 0]
    /\ UNCHANGED <<jiffies, cache_list, cache_lock, counters, args, fullpath,
                   entry, nhit, nmiss, started, workvars, exitvars>>

\* LockAfterLookup without the spin_unlock that follows the loop
LockAfterLookup_Held(t) == t

\* the owner of cache_lock when the lookup loop has ended without a match
LockAfterLookup(t) == FREE

\* atomic_inc(&cache_hits)
CountHit(v) == v + 1

\* CountMiss without the increment
CountMiss_Skipped(v) == v

\* atomic_inc(&cache_misses)
CountMiss(v) == v + 1

\* spin_lock, the lookup loop and spin_unlock: on a match copy the stat,
\* count a hit and return 0; otherwise count a miss and call the provider
GetattrLookup(t) ==
    /\ pc[t] = "lookup"
    /\ cache_lock = FREE
    /\ LET i == Lookup(cache_list, fullpath[t], now[t]) IN
       IF i > 0
       THEN /\ stat' = [stat EXCEPT ![t] = cache_list[i].stat]
            /\ cache_hits' = CountHit(cache_hits)
            /\ nhit' = [nhit EXCEPT ![t] = CountHit(@)]
            /\ cache_lock' = FREE
            /\ ret' = [ret EXCEPT ![t] = 0]
            /\ pc' = [pc EXCEPT ![t] = "done"]
            /\ now' = [now EXCEPT ![t] = 0]
            /\ UNCHANGED <<cache_misses, nmiss>>
       ELSE /\ cache_lock' = LockAfterLookup(t)
            /\ cache_misses' = CountMiss(cache_misses)
            /\ nmiss' = [nmiss EXCEPT ![t] = CountMiss(@)]
            /\ pc' = [pc EXCEPT ![t] = "fetch"]
            /\ UNCHANGED <<stat, cache_hits, nhit, ret, now>>
    /\ UNCHANGED <<jiffies, cache_list, args, fullpath, entry,
                   fetched, ncalls, started, workvars, exitvars>>

\* NewEntry with the caller's buffer as it was before the provider call
NewEntry_StaleStat(t, r) ==
    Entry(Strncpy(fullpath[t], MAX_PATH_LEN - 1), stat[t], now[t], jiffies)

\* the entry cached_getattr fills in after kmalloc: the path copied with
\* strncpy, the stat just fetched, timestamp = now (sampled on entry)
NewEntry(t, r) ==
    Entry(Strncpy(fullpath[t], MAX_PATH_LEN - 1), r.stat, now[t], jiffies)

\* AfterFetch without the test of the provider's return value
AfterFetch_IgnoreError(r, ok) ==
    IF ~ok THEN "done"
    ELSE "insert"

\* where the call goes when the provider has answered r and kmalloc has
\* succeeded (ok) or failed
AfterFetch(r, ok) ==
    IF r.ret # 0 THEN "done"
    ELSE IF ~ok THEN "done"
    ELSE "insert"

\* FetchRet with a failed kmalloc reported to the caller as -ENOMEM
FetchRet_Enomem(r, ok) ==
    IF r.ret = 0 /\ ~ok THEN -ENOMEM ELSE r.ret

\* what the call returns after the provider has answered r: the provider's
\* error, or ret (still 0) both when kmalloc fails and after the insertion
FetchRet(r, ok) == r.ret

\* the provider call returns r; on success kmalloc and the filling of the
\* entry follow
GetattrFetch(t, r, ok) ==
    /\ pc[t] = "fetch"
    /\ ncalls' = [ncalls EXCEPT ![t] = @ + 1]
    /\ fetched' = [fetched EXCEPT ![t] = r]
    /\ ret' = [ret EXCEPT ![t] = FetchRet(r, ok)]
    /\ stat' = [stat EXCEPT ![t] = IF r.ret = 0 THEN r.stat ELSE @]
    /\ pc' = [pc EXCEPT ![t] = AfterFetch(r, ok)]
    /\ entry' = [entry EXCEPT ![t] = IF AfterFetch(r, ok) = "insert" THEN NewEntry(t, r) ELSE NoEntry]
    /\ now' = [now EXCEPT ![t] = IF AfterFetch(r, ok) = "done" THEN 0 ELSE @]
    /\ UNCHANGED <<jiffies, cache_list, cache_lock, counters, args, fullpath,
                   nhit, nmiss, started, workvars, exitvars>>

\* ListAdd that unlinks the entries already stored for the new entry's path
ListAdd_Replace(e, list) == <<e>> \o SelectSeq(list, LAMBDA x : x.path # e.path)

\* list_add puts the entry at the head; nothing already in the list is looked at
ListAdd(e, list) == <<e>> \o list

\* spin_lock, list_add, spin_unlock, return ret
GetattrInsert(t) ==
    /\ pc[t] = "insert"
    /\ cache_lock = FREE
    /\ cache_list' = ListAdd(entry[t], cache_list)
    /\ cache_lock' = FREE
    /\ entry' = [entry EXCEPT ![t] = NoEntry]
    /\ pc' = [pc EXCEPT ![t] = "done"]
    /\ now' = [now EXCEPT ![t] = 0]
    /\ UNCHANGED <<jiffies, counters, args, fullpath, stat, ret, fetched,
                   ncalls, nhit, nmiss, started, workvars, exitvars>>

(***************************************************************************)
(* cleanup_worker and cleanup_cache                                        *)
(***************************************************************************)
\* SweepExpired with an age of exactly the timeout kept
SweepExpired_Strict(e, n) == USub(n, e.timestamp) > msecs_to_jiffies(CACHE_TIMEOUT_MS)

\* the test of the cleanup loop
SweepExpired(e, n) == USub(n, e.timestamp) >= msecs_to_jiffies(CACHE_TIMEOUT_MS)

\* list_for_each_entry_safe: every entry that passes the test is unlinked
\* and freed, the others stay in their order
RECURSIVE SweepFrom(_, _, _)
SweepFrom(list, n, i) ==
    IF i > Len(list) THEN <<>>
    ELSE IF SweepExpired(list[i], n) THEN SweepFrom(list, n, i + 1)
    ELSE <<list[i]>> \o SweepFrom(list, n, i + 1)

Sweep(list, n) == SweepFrom(list, n, 1)

\* the timer of the delayed work expires and the work starts: cleanup_cache
\* samples now = jiffies
WorkerStart ==
    /\ wpc = "queued"
    /\ jiffies >= due
    /\ wnow' = jiffies
    /\ wpc' = "sweep"
    /\ UNCHANGED <<jiffies, cache_list, cache_lock, counters, callvars, due, exitvars>>

\* spin_lock, the cleanup loop and spin_unlock
WorkerSweep ==
    /\ wpc = "sweep"
    /\ cache_lock = FREE
    /\ cache_list' = Sweep(cache_list, wnow)
    /\ cache_lock' = FREE
    /\ wpc' = "requeue"
    /\ UNCHANGED <<jiffies, counters, callvars, wnow, due, exitvars>>

\* WorkerRequeue without the queue_delayed_work: the work runs once
WorkerRequeue_Once ==
    /\ wpc = "requeue"
    /\ wpc' = "off"
    /\ UNCHANGED <<jiffies, cache_list, cache_lock, counters, callvars, wnow, due, exitvars>>

\* queue_delayed_work at the end of cleanup_worker; it queues nothing while
\* cancel_delayed_work_sync is cancelling the work
WorkerRequeue ==
    /\ wpc = "requeue"
    /\ IF xpc = "cancel"
       THEN /\ wpc' = "off"
            /\ UNCHANGED due
       ELSE /\ wpc' = "queued"
            /\ due' = jiffies + msecs_to_jiffies(CLEANUP_INTERVAL_MS)
    /\ UNCHANGED <<jiffies, cache_list, cache_lock, counters, callvars, wnow, exitvars>>

(***************************************************************************)
(* getattr_cache_exit                                                      *)
(***************************************************************************)
\* getattr_cache_exit is entered; the second time it is entered after it has
\* returned. cleanup_workqueue is assigned in getattr_cache_init only, so the
\* test if (cleanup_workqueue) passes every time. cancel_delayed_work_sync
\* begins: a pending timer is deleted, a running work is left to finish
ExitCancel ==
    /\ \/ xpc = "loaded"
       \/ xpc = "unloaded" /\ wq_destroys < MaxExits
    /\ xpc' = "cancel"
    /\ wpc' = IF wpc = "queued" THEN "off" ELSE wpc
    /\ UNCHANGED <<jiffies, cache_list, cache_lock, counters, callvars, wnow, due, wq_destroys>>

\* ExitDestroy with cancel_delayed_work in the place of
\* cancel_delayed_work_sync: a running work is not waited for
ExitDestroy_NoWait ==
    /\ xpc = "cancel"
    /\ wq_destroys' = wq_destroys + 1
    /\ xpc' \in (IF wq_destroys = 0 THEN {"drain"} ELSE {"drain", "oops"})
    /\ UNCHANGED <<jiffies, cache_list, cache_lock, counters, callvars, workvars>>

\* cancel_delayed_work_sync returns once the work is neither pending nor
\* running; destroy_workqueue and the restoring of the inode operations
\* follow. destroy_workqueue on a workqueue that is already destroyed uses
\* freed memory: the call goes on or the kernel stops the thread ("oops")
ExitDestroy ==
    /\ xpc = "cancel"
    /\ wpc = "off"
    /\ wq_destroys' = wq_destroys + 1
    /\ xpc' \in (IF wq_destroys = 0 THEN {"drain"} ELSE {"drain", "oops"})
    /\ UNCHANGED <<jiffies, cache_list, cache_lock, counters, callvars, workvars>>

\* spin_lock, every entry is unlinked and freed, spin_unlock
ExitDrain ==
    /\ xpc = "drain"
    /\ cache_lock = FREE
    /\ cache_list' = <<>>
    /\ cache_lock' = FREE
    /\ xpc' = "unloaded"
    /\ UNCHANGED <<jiffies, counters, callvars, workvars, wq_destroys>>

Next ==
    \/ Tick
    \/ \E t \in Callers, a \in Args : GetattrEnter(t, a)
    \/ \E t \in Callers, r \in ProviderResults : GetattrDelegate(t, r)
    \/ \E t \in Callers : GetattrLookup(t)
    \/ \E t \in Callers, r \in ProviderResults, ok \in BOOLEAN : GetattrFetch(t, r, ok)
    \/ \E t \in Callers : GetattrInsert(t)
    \/ WorkerStart
    \/ WorkerSweep
    \/ WorkerRequeue
    \/ ExitCancel
    \/ ExitDestroy
    \/ ExitDrain

Spec == Init /\ [][Next]_vars

\* a call that is inside cached_getattr takes its next step
CallerProgress(t) ==
    \/ GetattrLookup(t)
    \/ GetattrInsert(t)
    \/ \E r \in ProviderResults : GetattrDelegate(t, r)
    \/ \E r \in ProviderResults, ok \in BOOLEAN : GetattrFetch(t, r, ok)

\* the clock runs, the workqueue runs the work whose timer has expired until
\* it returns, and a thread inside cached_getattr runs until it returns;
\* nobody has to call cached_getattr or to unload the module
FairSpec ==
    /\ Spec
    /\ WF_vars(Tick)
    /\ WF_vars(WorkerStart)
    /\ WF_vars(WorkerSweep)
    /\ WF_vars(WorkerRequeue)
    /\ \A t \in Callers : WF_vars(CallerProgress(t))

(***************************************************************************)
(* Vocabulary of the properties.                                           *)
(***************************************************************************)
\* q is a character-wise prefix of p
IsPrefix(q, p) == Len(q) <= Len(p) /\ SubSeq(p, 1, Len(q)) = q

\* p begins with a configured prefix
Eligible(p) == \E i \in 1..Len(cached_paths) : IsPrefix(cached_paths[i], p)

\* the arguments are valid and name a path that begins with no configured prefix
IneligibleCall(a) == a.path /\ a.dentry /\ a.stat /\ a.d_path # NULL /\ ~Eligible(a.d_path)

\* the arguments lack the path, its dentry or the output buffer
MissingArgs(a) == ~a.path \/ ~a.dentry \/ ~a.stat

\* the steps of caller t
LookupStep(t) == pc[t] = "lookup" /\ pc'[t] # "lookup"
HitStep(t) == pc[t] = "lookup" /\ pc'[t] = "done"
StepOf(t) ==
    <<pc[t], args[t], now[t], stat[t], ret[t], entry[t], fetched[t], ncalls[t], nhit[t], nmiss[t]>>' #
    <<pc[t], args[t], now[t], stat[t], ret[t], entry[t], fetched[t], ncalls[t], nhit[t], nmiss[t]>>

\* the step in which cleanup_cache runs its loop
SweepStep == wpc = "sweep" /\ wpc' = "requeue"

\* the positions in the store of the entries for path p
EntriesOf(p) == {i \in 1..Len(cache_list) : cache_list[i].path = p}

MinOf(S) == CHOOSE i \in S : \A j \in S : i <= j

(***************************************************************************)
(* C1                                                                      *)
(***************************************************************************)
\* the entries for t's path whose provider fetch completed at a time T with
\* now[t] in [T, T+TTL)
FetchedWithinTtl(t) ==
    {i \in EntriesOf(fullpath[t]) :
        /\ cache_list[i].fetchedAt <= now[t]
        /\ now[t] < cache_list[i].fetchedAt + TTL}

\* the entries for t's path whose createdAt is a time T0 with now[t] in
\* [T0, T0+TTL)
CreatedWithinTtl(t) ==
    {i \in EntriesOf(fullpath[t]) :
        /\ cache_list[i].timestamp <= now[t]
        /\ now[t] < cache_list[i].timestamp + TTL}

\* C1 as stated: after a successful provider fetch for a path has completed
\* at time T (and its entry is in the store), a getattr call on that path made
\* at a time in [T, T+TTL) returns the attributes of that fetch, makes no
\* provider call and increments the hit counter by exactly one.
C1_HitWithinTtlOfFetch ==
    [][\A t \in Callers : LookupStep(t) =>
          \A i \in FetchedWithinTtl(t) :
              /\ pc'[t] = "done"
              /\ ret'[t] = 0
              /\ stat'[t] = cache_list[i].stat
              /\ ncalls'[t] = 0
              /\ nhit'[t] = 1
              /\ cache_hits' = cache_hits + 1]_vars

\* C1 amended: a getattr call on a path, made at a time in [T0, T0+TTL) where
\* T0 is the createdAt of an entry for that path that is in the store at the
\* call's lookup (T0 is the time the inserting call sampled on entry, before
\* its provider fetch), returns the attributes of the first such entry in
\* store order, makes no provider call and increments the hit counter by
\* exactly one.
C1_HitWithinTtlOfCreation ==
    [][\A t \in Callers : LookupStep(t) /\ CreatedWithinTtl(t) # {} =>
          /\ pc'[t] = "done"
          /\ ret'[t] = 0
          /\ stat'[t] = cache_list[MinOf(CreatedWithinTtl(t))].stat
          /\ ncalls'[t] = 0
          /\ nhit'[t] = 1
          /\ cache_hits' = cache_hits + 1
          /\ cache_misses' = cache_misses]_vars

\* a call has been answered from an entry that is in the store
C1_Witness ==
    \E t \in Callers :
        /\ pc[t] = "done"
        /\ nhit[t] = 1
        /\ ncalls[t] = 0
        /\ ret[t] = 0
        /\ \E i \in EntriesOf(args[t].d_path) : cache_list[i].stat = stat[t]

(***************************************************************************)
(* C2                                                                      *)
(***************************************************************************)
\* every entry for t's path was fetched at a time T with now[t] >= T + TTL
AllFetchedBeforeTtl(t) ==
    \A i \in EntriesOf(fullpath[t]) : now[t] >= cache_list[i].fetchedAt + TTL

\* C2: a getattr call on an eligible path made at a time >= T + TTL, for every
\* fetch time T of an entry the store holds for the path (swept or not), is
\* counted as a miss and never as a hit, and makes exactly one provider call.
C2_ExpiredIsMiss ==
    /\ [][\A t \in Callers : LookupStep(t) /\ AllFetchedBeforeTtl(t) =>
            /\ pc'[t] = "fetch"
            /\ nmiss'[t] = 1
            /\ nhit'[t] = 0
            /\ cache_misses' = cache_misses + 1
            /\ cache_hits' = cache_hits]_vars
    /\ [](\A t \in Callers :
            /\ pc[t] = "fetch" => ncalls[t] = 0
            /\ pc[t] \in {"insert", "done"} /\ nmiss[t] = 1 => ncalls[t] = 1)

\* a call is fetching from the provider while the store holds an entry for
\* its path that had aged out when the call was made
C2_Witness ==
    \E t \in Callers :
        /\ pc[t] = "fetch"
        /\ nmiss[t] = 1
        /\ \E i \in EntriesOf(fullpath[t]) : now[t] >= cache_list[i].fetchedAt + TTL

(***************************************************************************)
(* C3                                                                      *)
(***************************************************************************)
\* C3 as stated: whenever getattr answers from the cache, the age of the
\* served entry at the moment it is served (the clock minus the entry's
\* createdAt) does not exceed TTL.
C3_ServedAgeAtMostTtl ==
    [][\A t \in Callers : HitStep(t) =>
          jiffies - cache_list[Lookup(cache_list, fullpath[t], now[t])].timestamp <= TTL]_vars

(***************************************************************************)
(* C4                                                                      *)
(***************************************************************************)
\* C4: a getattr call on a path that matches no configured prefix makes
\* exactly one provider call and returns its result, and no step of the call
\* changes the store, the hit counter or the miss counter.
C4_IneligibleDelegates ==
    /\ [](\A t \in Callers : IneligibleCall(args[t]) =>
            /\ nhit[t] = 0 /\ nmiss[t] = 0
            /\ pc[t] \in {"delegate", "done"}
            /\ pc[t] = "delegate" => ncalls[t] = 0
            /\ pc[t] = "done" =>
                 /\ ncalls[t] = 1
                 /\ ret[t] = fetched[t].ret
                 /\ stat[t] = fetched[t].stat)
    /\ [][\A t \in Callers : StepOf(t) /\ IneligibleCall(args'[t]) =>
            UNCHANGED <<cache_list, cache_hits, cache_misses>>]_vars

\* a call on a path outside the prefix has returned the provider's attributes
C4_Witness ==
    \E t \in Callers :
        /\ IneligibleCall(args[t])
        /\ pc[t] = "done"
        /\ ncalls[t] = 1
        /\ stat[t] \in Stats

(***************************************************************************)
(* C5                                                                      *)
(***************************************************************************)
\* the entries of the list that are younger than TTL at time S, in order
RECURSIVE FreshAt(_, _)
FreshAt(list, S) ==
    IF list = <<>> THEN <<>>
    ELSE IF S - Head(list).timestamp < TTL THEN <<Head(list)>> \o FreshAt(Tail(list), S)
    ELSE FreshAt(Tail(list), S)

\* C5 as stated: a sweep executed at time S (the time it sampled) removes
\* every entry with S - createdAt >= TTL and leaves every entry with
\* S - createdAt < TTL; the store size after the sweep is the number of fresh
\* entries before it.
C5_SweepKeepsFresh ==
    [][SweepStep =>
          /\ cache_list' = FreshAt(cache_list, wnow)
          /\ Len(cache_list') = Cardinality({i \in 1..Len(cache_list) :
                                               wnow - cache_list[i].timestamp < TTL})]_vars

(***************************************************************************)
(* C6                                                                      *)
(***************************************************************************)
\* C6: callers that miss concurrently on one path are never blocked by each
\* other (the lock is free whenever a caller is between two steps), each
\* returns success with the attributes of its own provider call, and a sweep
\* made when the entries for a path have all expired leaves none of them.
C6_ConcurrentMisses ==
    /\ [](/\ cache_lock = FREE
          /\ \A t \in Callers :
                nmiss[t] = 1 /\ fetched[t].ret = 0 /\ pc[t] \in {"insert", "done"} =>
                    /\ ret[t] = 0
                    /\ stat[t] = fetched[t].stat
                    /\ ncalls[t] = 1)
    /\ [][SweepStep =>
            \A p \in Paths :
                (\A i \in EntriesOf(p) : /\ cache_list[i].timestamp <= wnow
                                         /\ wnow - cache_list[i].timestamp >= TTL)
                    => \A j \in 1..Len(cache_list') : cache_list'[j].path # p]_vars

\* two callers have missed on the same path at the same time, each has
\* returned the attributes of its own fetch, and the store holds both entries
C6_Witness ==
    /\ Len(cache_list) = 2
    /\ cache_list[1].path = cache_list[2].path
    /\ cache_list[1].timestamp = cache_list[2].timestamp
    /\ cache_list[1].stat # cache_list[2].stat
    /\ \A t \in Callers :
          /\ pc[t] = "done"
          /\ nmiss[t] = 1
          /\ ret[t] = 0
          /\ stat[t] = fetched[t].stat

(***************************************************************************)
(* C7                                                                      *)
(***************************************************************************)
\* C7: a call that is inside the provider (the fetch of a miss, or the
\* delegation of a path that is not cached) does not own the store lock.
C7_NoLockDuringFetch ==
    \A t \in Callers : pc[t] \in {"fetch", "delegate"} => cache_lock # t

\* one caller is inside the provider while another caller's lookup and the
\* sweep are free to take the lock
C7_Witness ==
    \E t, u \in Callers :
        /\ pc[t] = "fetch"
        /\ pc[u] = "lookup"
        /\ ENABLED GetattrLookup(u)
        /\ ENABLED WorkerSweep

(***************************************************************************)
(* C8                                                                      *)
(***************************************************************************)
\* C8: when the provider fetch of a call returns an error, the call returns
\* that error, makes no second provider call and adds no entry to the store.
C8_ErrorPropagated ==
    /\ [](\A t \in Callers : fetched[t].ret \notin {0, NoResult.ret} =>
            /\ pc[t] = "done"
            /\ ret[t] = fetched[t].ret
            /\ ncalls[t] = 1
            /\ entry[t] = NoEntry)
    /\ [][\A t \in Callers : StepOf(t) /\ fetched'[t].ret \notin {0, NoResult.ret} =>
            cache_list' = cache_list]_vars

\* a miss whose fetch failed has returned the provider's error
C8_Witness ==
    \E t \in Callers :
        /\ pc[t] = "done"
        /\ Eligible(args[t].d_path)
        /\ fetched[t].ret = -EIO
        /\ ret[t] = -EIO

(***************************************************************************)
(* C9                                                                      *)
(***************************************************************************)
\* the arguments are valid and name a path that begins with a configured prefix
EligibleCall(a) == a.path /\ a.dentry /\ a.stat /\ a.d_path # NULL /\ Eligible(a.d_path)

\* C9 as stated: a miss whose fetch succeeds increments misses by exactly
\* one, and a call whose fetch returns an error leaves the miss counter
\* unchanged.
C9_MissCountedOnSuccessOnly ==
    \A t \in Callers : pc[t] = "done" /\ EligibleCall(args[t]) /\ ncalls[t] = 1 =>
        nmiss[t] = (IF fetched[t].ret = 0 THEN 1 ELSE 0)

\* C9 amended: a getattr on an eligible path that misses increments misses by
\* exactly one, before its provider call, whether the fetch then succeeds or
\* returns an error.
C9_MissCountedBeforeFetch ==
    /\ [](\A t \in Callers :
            /\ pc[t] \in {"fetch", "insert"} => nmiss[t] = 1
            /\ pc[t] = "done" /\ EligibleCall(args[t]) /\ ncalls[t] = 1 => nmiss[t] = 1)
    /\ [][\A t \in Callers :
            /\ pc[t] = "lookup" /\ pc'[t] = "fetch" => cache_misses' = cache_misses + 1
            /\ pc[t] \in {"fetch", "insert"} /\ StepOf(t) => cache_misses' = cache_misses]_vars

\* a miss whose fetch failed has been counted as a miss
C9_Witness ==
    \E t \in Callers :
        /\ pc[t] = "done"
        /\ fetched[t].ret # 0
        /\ ncalls[t] = 1
        /\ nmiss[t] = 1
        /\ cache_misses >= 1

(***************************************************************************)
(* C10                                                                     *)
(***************************************************************************)
\* C10: a getattr call without a path, without the path's dentry or without
\* an output buffer returns -EINVAL in its first step, makes no provider
\* call, and changes neither the store nor a counter.
C10_InvalidArgument ==
    /\ [](\A t \in Callers : MissingArgs(args[t]) /\ pc[t] # "idle" =>
            /\ pc[t] = "done"
            /\ ret[t] = -EINVAL
            /\ ncalls[t] = 0
            /\ nhit[t] = 0
            /\ nmiss[t] = 0
            /\ stat[t] = NoStat)
    /\ [][\A t \in Callers : args'[t] # args[t] /\ MissingArgs(args'[t]) =>
            /\ pc'[t] = "done"
            /\ UNCHANGED <<cache_list, cache_hits, cache_misses>>]_vars

\* a call without an output buffer has returned -EINVAL
C10_Witness ==
    \E t \in Callers :
        /\ pc[t] = "done"
        /\ args[t].path /\ args[t].dentry /\ ~args[t].stat
        /\ ret[t] = -EINVAL

(***************************************************************************)
(* C11                                                                     *)
(***************************************************************************)
\* the step in which t's provider call has succeeded and kmalloc has failed:
\* the only way from the provider call to the return with a fetched ret of 0
AllocFailStep(t) == pc[t] = "fetch" /\ pc'[t] = "done" /\ fetched'[t].ret = 0

\* C11: when the provider fetch has succeeded and no memory is available for
\* the new entry, the call returns success (0) with the attributes just
\* fetched in the caller's buffer, fills in no entry and leaves the store as
\* it was.
C11_AllocFailureStillSucceeds ==
    [][\A t \in Callers :
        AllocFailStep(t) =>
            /\ ret'[t] = 0
            /\ stat'[t] = fetched'[t].stat
            /\ stat'[t] \in Stats
            /\ entry'[t] = NoEntry
            /\ cache_list' = cache_list]_vars

\* a call has returned 0 with the fetched attributes after a miss, and the
\* store is empty although nothing can have emptied it: the worker has not
\* run yet, the module is loaded and nobody else has called
C11_Witness ==
    \E t \in Callers :
        /\ pc[t] = "done"
        /\ nmiss[t] = 1
        /\ fetched[t].ret = 0
        /\ ret[t] = 0
        /\ stat[t] = fetched[t].stat
        /\ cache_list = <<>>
        /\ wpc = "queued"
        /\ jiffies < due
        /\ xpc = "loaded"
        /\ \A u \in Callers \ {t} : pc[u] = "idle"

(***************************************************************************)
(* C12                                                                     *)
(***************************************************************************)
\* getattr_cache_exit has got past cancel_delayed_work_sync and
\* destroy_workqueue: the teardown of the store has begun or is over
TeardownBegun == xpc \in {"drain", "unloaded"}

\* C12: shutdown cancels the worker and waits for a sweep in progress before
\* it tears the store down: from the moment the teardown of the store begins
\* the worker is neither queued nor running, no sweep is in progress, and
\* no step of the worker (start, sweep, requeue) is taken any more.
C12_WorkerOffBeforeTeardown ==
    /\ [](TeardownBegun => wpc = "off")
    /\ [][TeardownBegun => wpc' = wpc /\ wnow' = wnow /\ due' = due]_vars
    /\ [][wpc = "off" => wpc' = "off"]_vars

\* the teardown of the store has begun after shutdown waited for a sweep that
\* was running when it was invoked: the worker has sampled its clock, and is
\* off now
C12_Witness ==
    /\ TeardownBegun
    /\ wpc = "off"
    /\ wnow >= msecs_to_jiffies(CLEANUP_INTERVAL_MS)
    /\ due = msecs_to_jiffies(CLEANUP_INTERVAL_MS)

(***************************************************************************)
(* C13                                                                     *)
(***************************************************************************)
\* C13 as stated: shutdown is idempotent: however often it is invoked, the
\* worker queue is released once only, and the later invocation ends like
\* the first, with the worker off and the module unloaded.
C13_ShutdownIdempotent ==
    /\ wq_destroys <= 1
    /\ xpc # "oops"

(***************************************************************************)
(* C14                                                                     *)
(***************************************************************************)
\* the step in which t enters cached_getattr with valid arguments
EnterValidStep(t) == pc[t] \in {"idle", "done"} /\ pc'[t] \in {"lookup", "delegate"}

\* C14: a path is eligible exactly when some configured prefix is a
\* character-wise prefix of it: a call whose full path is known goes to the
\* cache when its path begins with "/tmp/nfs" and to the provider alone when
\* it does not. "/tmp/nfs/a" and "/tmp/nfsother" are eligible, the shorter
\* "/tmp" and the differing "/tmp/nfx" are not.
C14_EligibleIffPrefix ==
    [][\A t \in Callers :
        EnterValidStep(t) /\ args'[t].d_path # NULL =>
            /\ pc'[t] = "lookup" <=> Eligible(args'[t].d_path)
            /\ should_cache_path(args'[t].d_path) <=> Eligible(args'[t].d_path)
            /\ args'[t].d_path \in {PathA, PathOther} => pc'[t] = "lookup"
            /\ args'[t].d_path \in {PathTmp, PathX} => pc'[t] = "delegate"]_vars

\* one call on "/tmp/nfsother" is on its way to the cache while another on
\* "/tmp/nfx" is on its way to the provider
C14_Witness ==
    \E t, u \in Callers :
        /\ pc[t] = "lookup"
        /\ args[t].d_path = PathOther
        /\ pc[u] = "delegate"
        /\ args[u].d_path = PathX

(***************************************************************************)
(* C15                                                                     *)
(***************************************************************************)
\* the entries for t's path whose age now - createdAt, as a number, is less
\* than the timeout
YoungerThanTtl(t) ==
    {i \in EntriesOf(fullpath[t]) : now[t] - cache_list[i].timestamp < TTL}

\* C15 as stated: the lookup scans from the most recently inserted entry to
\* the oldest and answers with the first entry that has exactly the path
\* asked for and an age now - createdAt below TTL; same-path entries that are
\* expired are passed over, and the call is a miss only when no entry of the
\* path is younger than TTL.
C15_FirstYoungEntryAnswers ==
    [][\A t \in Callers :
        LookupStep(t) =>
            IF YoungerThanTtl(t) = {}
            THEN pc'[t] = "fetch"
            ELSE /\ pc'[t] = "done"
                 /\ stat'[t] = cache_list[MinOf(YoungerThanTtl(t))].stat]_vars

(***************************************************************************)
(* C16                                                                     *)
(***************************************************************************)
\* the step in which getattr_cache_exit empties the store
DrainStep == xpc = "drain" /\ xpc' = "unloaded"

\* the step in which t, after a miss and a successful fetch, links its entry
InsertStep(t) == pc[t] = "insert" /\ pc'[t] = "done"

\* C16: entries leave the store only in a sweep or in the drain of shutdown.
\* Every other step keeps the stored entries, unchanged and in their order:
\* no step of a getattr call (hit, miss, error, delegation, invalid
\* arguments) touches them, except that the last step of a miss whose fetch
\* succeeded puts exactly one new entry, the call's own, in front of them.
C16_OnlySweepAndDrainRemove ==
    /\ [][SweepStep \/ DrainStep \/ cache_list' = cache_list
             \/ (Len(cache_list') = Len(cache_list) + 1 /\ Tail(cache_list') = cache_list)]_vars
    /\ [][\A t \in Callers :
            StepOf(t) =>
                IF InsertStep(t)
                THEN /\ nmiss[t] = 1
                     /\ fetched[t].ret = 0
                     /\ cache_list' = <<entry[t]>> \o cache_list
                ELSE cache_list' = cache_list]_vars

\* a miss has put its entry in front of an older entry for the same path,
\* which is still there behind it
C16_Witness ==
    \E t \in Callers :
        /\ pc[t] = "done"
        /\ nmiss[t] = 1
        /\ Len(cache_list) = 2
        /\ cache_list[1].path = fullpath[t]
        /\ cache_list[1].stat = stat[t]
        /\ cache_list[2].path = fullpath[t]
        /\ cache_list[2].timestamp < cache_list[1].timestamp

(***************************************************************************)
(* C17                                                                     *)
(***************************************************************************)
\* the entries of a list, as a set
EntrySet(list) == {list[i] : i \in 1..Len(list)}

\* e holds an eligible path and attributes a provider call returned with
\* success, produced no earlier than its createdAt
WellFormed(e) ==
    /\ Eligible(e.path)
    /\ e.stat \in Stats
    /\ e.timestamp <= e.fetchedAt
    /\ e.fetchedAt <= jiffies

\* C17: in every reachable state each stored entry holds an eligible path
\* and the attributes that a successful provider fetch returned for that
\* path (the entry a call is about to link is built from the call's own path,
\* its own successful fetch and the clock it sampled on entry), and no step
\* changes the path, the attributes or the createdAt of a stored entry: the
\* entries after a step are entries from before it, or the one entry a call
\* links in that step.
C17_EntriesWellFormedAndImmutable ==
    /\ [](\A e \in EntrySet(cache_list) : WellFormed(e))
    /\ [](\A t \in Callers :
            pc[t] = "insert" =>
                /\ fetched[t].ret = 0
                /\ entry[t].path = fullpath[t]
                /\ entry[t].stat = fetched[t].stat
                /\ entry[t].timestamp = now[t]
                /\ WellFormed(entry[t]))
    /\ [][EntrySet(cache_list') \subseteq
            EntrySet(cache_list) \cup {entry[t] : t \in {u \in Callers : InsertStep(u)}}]_vars

\* a stored entry has outlived its insertion by a tick of the clock and a
\* lookup of another caller that was served from it, and still holds what
\* its inserter fetched
C17_Witness ==
    \E t, u \in Callers :
        /\ t # u
        /\ pc[t] = "done" /\ nmiss[t] = 1 /\ fetched[t].ret = 0
        /\ pc[u] = "done" /\ nhit[u] = 1
        /\ Len(cache_list) = 1
        /\ cache_list[1].path = fullpath[t]
        /\ cache_list[1].stat = fetched[t].stat
        /\ cache_list[1].fetchedAt < jiffies
        /\ stat[u] = cache_list[1].stat

(***************************************************************************)
(* C18                                                                     *)
(***************************************************************************)
\* e has reached the age TTL by the time D
ExpiredBy(e, D) == e.timestamp + TTL <= D

\* the module is loaded and the work is queued with a timer that expires
\* within the time the clock can reach
TickPending == xpc = "loaded" /\ wpc = "queued" /\ due <= MaxTime

\* the sweep of the tick whose timer expired at due has been made (due is
\* set again only when the work is queued again)
TickSwept == wpc = "requeue"

C19_SweepNeverRemovesYoung ==
    [][SweepStep =>
        \A e \in EntrySet(cache_list) :
            jiffies - e.timestamp < TTL => e \in EntrySet(cache_list')]_vars

(***************************************************************************)
(* C20                                                                     *)
(***************************************************************************)
\* C20 as stated: once shutdown has drained the store and returned, the
\* store is empty and stays empty: no call that was in flight when shutdown
\* ran inserts its entry afterwards.
C20_StoreStaysEmptyAfterDrain == xpc = "unloaded" => cache_list = <<>>

=============================================================================
